---- MODULE Spec2Model ----
(***************************************************************************)
(* Model of the preconfirmation block builder of rbuilder:                 *)
(*   crates/rbuilder/src/building/builders/preconf_builder.rs              *)
(*   crates/rbuilder/src/building/builders/dummy_order.rs                  *)
(*                                                                         *)
(* PreconfBuilderContext::build_block is modelled statement group by       *)
(* statement group (pc names the next group to run); run_preconf_builder   *)
(* is the adapter that constructs a context, calls build_block once and    *)
(* dispatches the outcome.  A context can also be driven directly          *)
(* (PreconfBuilderContext::new, then build_block any number of times):     *)
(* both are public.                                                        *)
(*                                                                         *)
(* The slot input and the configuration are fixed for a behaviour: every   *)
(* context of the behaviour is built for the same slot.  A behaviour is    *)
(* either a sequence of adapter invocations or a caller driving contexts   *)
(* of its own (caller): the two share no state but the cancellation        *)
(* signal, which a directly driven context never touches.                  *)
(* Option<T> is modelled as a sequence: None is <<>>, Some(x) is <<x>>.    *)
(* Time is counted in clock ticks since build_start (Instant::now() at     *)
(* line 102); one millisecond is TicksPerMs ticks.  The database reads and *)
(* the pre-block EVM call between build_start and the fill loop take at    *)
(* least one tick, and so does each commit.                                *)
(* Balances are counted in units of the filler transfer value.             *)
(* The basefee and the fee fields of a transaction are U256/u64/u128 values *)
(* kept as sequences of 16-bit limbs, least significant first.              *)
(***************************************************************************)
EXTENDS Integers, Sequences, FiniteSets, TLC

VARIABLES
    \* ---- the slot input and the configuration (LiveBuilderInput, PreconfBuilderConfig)
    build_duration_deadline_ms, \* Option<u64>
    key_valid,                  \* dummy_tx_private_key parses to a secret key
    slot_bidder,                \* the bid oracle's policy
    sender_is_recipient,        \* filler sender = suggested fee recipient
    parent_balance,             \* fee recipient's balance in the parent-block state
    parent_nonce,               \* filler sender's nonce in the parent-block state
    basefee,                    \* ctx.block_env.basefee
    \* ---- PreconfBuilderContext
    builder_exists,
    cached_reads,               \* Option<CachedReads>; CachedReads is a set of keys
    failed_orders,
    order_attempts,
    \* ---- build_block: position and locals
    pc,
    caller,                     \* "adapter" | "direct"
    elapsed,                    \* ticks since build_start
    fee_recipient_balance_before,
    state_cache,                \* BlockState's cached reads
    state_balance,              \* fee recipient's balance in the working BlockState
    current_nonce,              \* starting nonce read at line 135
    factory_nonce,              \* DummyOrderFactory.nonce
    iter,                       \* iterations of `for _ in 0..10` begun
    attempts,                   \* commit attempts begun
    tx,                         \* the transaction of the last attempt
    attempt_start,              \* elapsed at the deadline check of the last attempt
    included,                   \* built_block_trace: included orders
    execution_errors,           \* commits that returned Err (line 160)
    snapshots,                  \* state providers opened by this call (line 114)
    fee_recipient_balance_after,
    fee_recipient_balance_diff,
    oracle_args,                \* the profit signals handed to the bid oracle in this call
    result,                     \* what build_block returned
    cache_at_call,              \* cached_reads when the call began
    seed,                       \* the cache the state view was seeded with
    \* ---- run_preconf_builder
    build_calls,                \* build_block calls of this invocation
    sink,                       \* blocks pushed to input.sink by this invocation
    cancel,                     \* the shared cancellation signal
    cancel_calls,               \* input.cancel.cancel() calls of this invocation
    logs,                       \* log levels emitted in this call / invocation
    \* ---- a sibling thread running the same adapter on the shared signal
    sibling_last                \* outcome of the sibling's last invocation

vars == << build_duration_deadline_ms, key_valid, slot_bidder, sender_is_recipient,
           parent_balance, parent_nonce, basefee, builder_exists, cached_reads, failed_orders,
           order_attempts, pc, caller, elapsed, fee_recipient_balance_before,
           state_cache, state_balance, current_nonce, factory_nonce, iter, attempts,
           tx, attempt_start, included, fee_recipient_balance_after,
           fee_recipient_balance_diff, oracle_args, result, cache_at_call, seed,
           build_calls, sink, cancel, cancel_calls, logs, execution_errors,
           snapshots, sibling_last >>

input_vars == << build_duration_deadline_ms, key_valid, slot_bidder,
                 sender_is_recipient, parent_balance, parent_nonce, basefee >>

adapter_vars == << build_calls, sink, cancel, cancel_calls >>

\* ------------------------------------------------------------------ bounds
MaxDeadlineMs == 1
TicksPerMs == 2
MaxDur == 2
MaxBalance == 1
MaxNonce == 1
MaxBasefee == 1

\* ------------------------------------------------------- program constants
\* for _ in 0..10
MaxAttempts == 10
\* value: U256::from(2000000000000000u64), in units of itself
FillerValue == 1

None == << >>
Some(x) == << x >>

\* Option::unwrap_or_default for Option<CachedReads>
unwrap_or_default(opt) == IF opt = None THEN {} ELSE opt[1]

\* a deadline read in seconds instead of milliseconds
from_secs(ms) == ms * 1000 * TicksPerMs

\* Duration::from_millis
from_millis(ms) == ms * TicksPerMs

\* PreconfBuilderConfig::build_duration_deadline
build_duration_deadline(ms_opt) ==
    IF ms_opt = None THEN None ELSE Some(from_millis(ms_opt[1]))

\* a deadline of zero taken for "no deadline"
DeadlineExceeded_ZeroUnset(el, deadline_opt) ==
    deadline_opt # None /\ deadline_opt[1] # 0 /\ el > deadline_opt[1]

\* if let Some(deadline) = ... { if build_start.elapsed() > deadline { break; } }
DeadlineExceeded(el, deadline_opt) ==
    deadline_opt # None /\ el > deadline_opt[1]

\* the difference taken without the underflow check
unchecked_sub(after, before) == after - before

\* Option<U256>::unwrap_or_default() after U256::checked_sub
checked_sub_or_default(after, before) ==
    IF after >= before THEN after - before ELSE 0

ErrKinds == {"consistent_view", "provider_health", "other", "profit_too_low"}
OracleErrKinds == ErrKinds
Policies == {"accept", "reject", "positive", "opaque"}

NoResult == [kind |-> "none", step |-> "", err |-> "", orders |-> 0, bid_value |-> 0]
ErrResult(step, e) ==
    [kind |-> "err", step |-> step, err |-> e, orders |-> 0, bid_value |-> 0]
\* ------------------------------------------------------------ dummy_order.rs
\* A U256, u64 or u128 value is a little-endian sequence of 16-bit limbs with no
\* leading zero limb (0 is << >>), so that the widths of lines 32-33 are kept.
Limb == 65536
U64Limbs == 4
U128Limbs == 8

\* U256::from(n) for a small n
RECURSIVE U256(_)
U256(n) == IF n = 0 THEN << >> ELSE << n % Limb >> \o U256(n \div Limb)

\* x * m + c for a U256 x and small m, c.  For x < 2^128 the product is below
\* 2^256 and U256 arithmetic is exact; for larger x line 33 panics whatever
\* line 28 produced.
RECURSIVE mul_add(_, _, _)
mul_add(x, m, c) ==
    IF x = << >> THEN U256(c)
    ELSE LET t == x[1] * m + c
         IN  << t % Limb >> \o mul_add(Tail(x), m, t \div Limb)

\* Uint::to::<T>() succeeds when the value fits the target width
to_fits(x, limbs) == Len(x) <= limbs

\* the outcome of a generate_tx call whose narrowing panicked ("Uint too large")
TxPanic == [panic |-> "Uint too large"]

\* a factory whose conversions saturate instead of panicking
generate_tx_unchecked(nonce, fee) ==
    [nonce |-> nonce,
     gas_limit |-> mul_add(fee, 21000, 5000),
     max_fee_per_gas |-> fee,
     max_priority_fee_per_gas |-> 0,
     to |-> "receiver",
     value |-> FillerValue]

\* DummyOrderFactory::generate_tx: reads the factory nonce, does not change it;
\* gas_limit.to() (u64) and basefee.to() (u128) panic when the value is too wide
generate_tx(nonce, fee) ==
    LET gas_limit == mul_add(fee, 21000, 5000)
    IN  IF ~to_fits(gas_limit, U64Limbs) \/ ~to_fits(fee, U128Limbs)
        THEN TxPanic
        ELSE [nonce |-> nonce,
              gas_limit |-> gas_limit,
              max_fee_per_gas |-> fee,
              max_priority_fee_per_gas |-> 0,
              to |-> "receiver",
              value |-> FillerValue]

\* DummyOrderFactory::increase_nonce
increase_nonce(nonce) == nonce + 1

NoTx == generate_tx(0, U256(0))

\* ------------------------------------------------------- collaborators
\* state_provider.account_balance(suggested_fee_recipient): the provider is the
\* state as of the parent block, which the working BlockState does not write to
account_balance == parent_balance

\* the bid oracle behind finalize_block_execution: the decisions it can take on a
\* profit signal (TRUE: seal).  "opaque" is an oracle this core cannot predict
seal_instructions(policy, profit) ==
    CASE policy = "accept" -> {TRUE}
      [] policy = "reject" -> {FALSE}
      [] policy = "positive" -> {profit > 0}
      [] OTHER -> BOOLEAN

\* substring tests that match nothing
never_contains(e) == FALSE
matches_nothing(e) == FALSE

\* a health test that recognises no error
health_never(e) == FALSE

\* err_str.contains(..) and is_provider_factory_health_error(&err)
contains_consistent_view(e) == e = "consistent_view"
contains_profit_too_low(e) == e = "profit_too_low"
is_provider_factory_health_error(e) == e = "provider_health"

\* ------------------------------------------------------------------ Init
Deadlines == {None} \cup {Some(ms) : ms \in 0..MaxDeadlineMs}

LocalsReset ==
    /\ elapsed' = 0
    /\ fee_recipient_balance_before' = 0
    /\ state_cache' = {}
    /\ state_balance' = 0
    /\ current_nonce' = 0
    /\ factory_nonce' = 0
    /\ iter' = 0
    /\ attempts' = 0
    /\ tx' = NoTx
    /\ attempt_start' = 0
    /\ included' = 0
    /\ execution_errors' = 0
    /\ snapshots' = 0
    /\ fee_recipient_balance_after' = 0
    /\ fee_recipient_balance_diff' = 0
    /\ oracle_args' = << >>
    /\ result' = NoResult
    /\ seed' = {}
    /\ logs' = {}

Init ==
    /\ build_duration_deadline_ms \in Deadlines
    /\ key_valid \in BOOLEAN
    /\ slot_bidder \in Policies
    /\ sender_is_recipient \in BOOLEAN
    /\ parent_balance \in 0..MaxBalance
    /\ parent_nonce \in 0..MaxNonce
    /\ basefee \in {U256(n) : n \in 1..MaxBasefee}
    /\ builder_exists = FALSE
    /\ cached_reads = None
    /\ failed_orders = {}
    /\ order_attempts = {}
    /\ pc = "idle"
    /\ caller \in {"adapter", "direct"}
    /\ elapsed = 0
    /\ fee_recipient_balance_before = 0
    /\ state_cache = {}
    /\ state_balance = 0
    /\ current_nonce = 0
    /\ factory_nonce = 0
    /\ iter = 0
    /\ attempts = 0
    /\ tx = NoTx
    /\ attempt_start = 0
    /\ included = 0
    /\ execution_errors = 0
    /\ snapshots = 0
    /\ sibling_last = "none"
    /\ fee_recipient_balance_after = 0
    /\ fee_recipient_balance_diff = 0
    /\ oracle_args = << >>
    /\ result = NoResult
    /\ cache_at_call = None
    /\ seed = {}
    /\ build_calls = 0
    /\ sink = << >>
    /\ cancel = FALSE
    /\ cancel_calls = 0
    /\ logs = {}

Quiescent ==
    \/ pc \in {"idle", "dispatched", "panicked"}
    \/ caller = "direct" /\ pc = "returned"

\* PreconfBuilderContext::new, by a caller that drives the context itself
New ==
    /\ Quiescent
    /\ caller = "direct"
    /\ UNCHANGED << input_vars, sibling_last >>
    /\ builder_exists' = TRUE
    /\ cached_reads' = None
    /\ failed_orders' = {}
    /\ order_attempts' = {}
    /\ LocalsReset
    /\ cache_at_call' = None
    /\ pc' = "idle"
    /\ build_calls' = 0
    /\ sink' = << >>
    /\ cancel_calls' = 0
    /\ UNCHANGED << caller, cancel >>

\* build_block called on the context the caller holds
CallBuildBlock ==
    /\ pc \in {"idle", "returned", "panicked"}
    /\ builder_exists
    /\ caller = "direct"
    /\ LocalsReset
    /\ cache_at_call' = cached_reads
    /\ pc' = "health"
    /\ UNCHANGED << input_vars, sibling_last, builder_exists, cached_reads, failed_orders,
                    order_attempts, caller, adapter_vars >>

\* an adapter that keeps one context, and its cache, across invocations
RunPreconfBuilder_Reuse ==
    /\ Quiescent
    /\ caller = "adapter"
    /\ UNCHANGED << input_vars, sibling_last >>
    /\ builder_exists' = TRUE
    /\ cached_reads' = cached_reads
    /\ failed_orders' = failed_orders
    /\ order_attempts' = order_attempts
    /\ LocalsReset
    /\ cache_at_call' = cached_reads
    /\ pc' = "health"
    /\ build_calls' = 1
    /\ sink' = << >>
    /\ cancel_calls' = 0
    /\ UNCHANGED << caller, cancel >>

\* run_preconf_builder up to the call of build_block: a new context, one call
RunPreconfBuilder ==
    /\ Quiescent
    /\ caller = "adapter"
    /\ UNCHANGED << input_vars, sibling_last >>
    /\ builder_exists' = TRUE
    /\ cached_reads' = None
    /\ failed_orders' = {}
    /\ order_attempts' = {}
    /\ LocalsReset
    /\ cache_at_call' = None
    /\ pc' = "health"
    /\ build_calls' = 1
    /\ sink' = << >>
    /\ cancel_calls' = 0
    /\ UNCHANGED << caller, cancel >>
\* ------------------------------------------------------------ build_block
ctx_vars == << input_vars, builder_exists, caller, cache_at_call, adapter_vars,
              sibling_last >>
scratch_vars == << failed_orders, order_attempts >>
loop_vars == << iter, attempts, tx, attempt_start, included, factory_nonce,
               execution_errors >>
profit_vars == << fee_recipient_balance_after, fee_recipient_balance_diff, oracle_args >>

\* lines 100-111: the health check passes; build_start is taken, the scratch cleared
CheckHealthOk ==
    /\ pc = "health"
    /\ elapsed' = 0
    /\ failed_orders' = {}
    /\ order_attempts' = {}
    /\ pc' = "snapshot"
    /\ UNCHANGED << ctx_vars, snapshots, cached_reads, fee_recipient_balance_before, state_cache,
                    state_balance, current_nonce, loop_vars, profit_vars, result, seed,
                    logs >>

\* a health check made after the cache was taken and the snapshot opened
CheckHealthErr_Late ==
    /\ pc = "health"
    /\ \E e \in ErrKinds : result' = ErrResult("health", e)
    /\ cached_reads' = None
    /\ snapshots' = snapshots + 1
    /\ pc' = "returned"
    /\ UNCHANGED << ctx_vars, scratch_vars, elapsed,
                    fee_recipient_balance_before, state_cache, state_balance,
                    current_nonce, loop_vars, profit_vars, seed, logs >>

\* line 100: check_provider_factory_health(..)? returns the error
CheckHealthErr ==
    /\ pc = "health"
    /\ \E e \in ErrKinds : result' = ErrResult("health", e)
    /\ pc' = "returned"
    /\ UNCHANGED << ctx_vars, snapshots, cached_reads, scratch_vars, elapsed,
                    fee_recipient_balance_before, state_cache, state_balance,
                    current_nonce, loop_vars, profit_vars, seed, logs >>

\* lines 114-116: history_by_block_hash(parent)
SnapshotOk ==
    /\ pc = "snapshot"
    /\ snapshots' = snapshots + 1
    /\ pc' = "balance_before"
    /\ UNCHANGED << ctx_vars, cached_reads, scratch_vars, elapsed,
                    fee_recipient_balance_before, state_cache, state_balance,
                    current_nonce, loop_vars, profit_vars, result, seed, logs >>

SnapshotErr ==
    /\ pc = "snapshot"
    /\ \E e \in ErrKinds : result' = ErrResult("snapshot", e)
    /\ pc' = "returned"
    /\ UNCHANGED << ctx_vars, snapshots, cached_reads, scratch_vars, elapsed,
                    fee_recipient_balance_before, state_cache, state_balance,
                    current_nonce, loop_vars, profit_vars, seed, logs >>

\* lines 118-120: the fee recipient's balance before any execution
BalanceBeforeOk ==
    /\ pc = "balance_before"
    /\ fee_recipient_balance_before' = account_balance
    /\ pc' = "pre_block"
    /\ UNCHANGED << ctx_vars, snapshots, cached_reads, scratch_vars, elapsed, state_cache,
                    state_balance, current_nonce, loop_vars, profit_vars, result, seed,
                    logs >>

BalanceBeforeErr ==
    /\ pc = "balance_before"
    /\ \E e \in ErrKinds : result' = ErrResult("balance_before", e)
    /\ pc' = "returned"
    /\ UNCHANGED << ctx_vars, snapshots, cached_reads, scratch_vars, elapsed,
                    fee_recipient_balance_before, state_cache, state_balance,
                    current_nonce, loop_vars, profit_vars, seed, logs >>

\* a view seeded from a copy of the cache, which stays in the context
TakeCache_Clone ==
    /\ cached_reads' = cached_reads
    /\ seed' = unwrap_or_default(cached_reads)
    /\ state_cache' = unwrap_or_default(cached_reads)
    /\ state_balance' = account_balance

\* lines 123-126: BlockState::new(..).with_cached_reads(self.cached_reads.take()
\* .unwrap_or_default())
TakeCache ==
    /\ cached_reads' = None
    /\ seed' = unwrap_or_default(cached_reads)
    /\ state_cache' = unwrap_or_default(cached_reads)
    /\ state_balance' = account_balance

\* lines 123-128: the state view is seeded, pre_block_call succeeds
PreBlockOk ==
    /\ pc = "pre_block"
    /\ TakeCache
    /\ \E d \in 1..MaxDur : elapsed' = elapsed + d
    /\ pc' = "signer"
    /\ UNCHANGED << ctx_vars, snapshots, scratch_vars, fee_recipient_balance_before,
                    current_nonce, loop_vars, profit_vars, result, logs >>

\* line 127: pre_block_call(..)? returns the error; the cache was taken at 126
PreBlockErr ==
    /\ pc = "pre_block"
    /\ TakeCache
    /\ \E d \in 1..MaxDur : elapsed' = elapsed + d
    /\ \E e \in ErrKinds : result' = ErrResult("pre_block", e)
    /\ pc' = "returned"
    /\ UNCHANGED << ctx_vars, snapshots, scratch_vars, fee_recipient_balance_before,
                    current_nonce, loop_vars, profit_vars, logs >>

\* lines 130-134: self.config.dummy_signer() parses the key, info!(..)
DummySignerOk ==
    /\ pc = "signer"
    /\ key_valid
    /\ logs' = logs \cup {"info"}
    /\ pc' = "nonce"
    /\ UNCHANGED << ctx_vars, snapshots, cached_reads, scratch_vars, elapsed,
                    fee_recipient_balance_before, state_cache, state_balance,
                    current_nonce, loop_vars, profit_vars, result, seed >>

\* lines 52-55, 130: .expect("parse secret key") / .expect("signer") panics; the
\* panic unwinds through run_preconf_builder, which drops its context (line 313)
DummySignerPanic ==
    /\ pc = "signer"
    /\ ~key_valid
    /\ result' = [NoResult EXCEPT !.kind = "panic", !.step = "signer"]
    /\ builder_exists' = IF caller = "adapter" THEN FALSE ELSE builder_exists
    /\ pc' = "panicked"
    /\ UNCHANGED << input_vars, caller, cache_at_call, adapter_vars, sibling_last, snapshots, cached_reads, scratch_vars, elapsed,
                    fee_recipient_balance_before, state_cache, state_balance,
                    current_nonce, loop_vars, profit_vars, seed, logs >>

\* lines 135-137: state.nonce(sender), DummyOrderFactory::new(.., current_nonce, ..)
NonceOk ==
    /\ pc = "nonce"
    /\ current_nonce' = parent_nonce
    /\ factory_nonce' = parent_nonce
    /\ state_cache' = state_cache \cup {"sender"}
    /\ pc' = "loop"
    /\ UNCHANGED << ctx_vars, snapshots, cached_reads, scratch_vars, elapsed,
                    fee_recipient_balance_before, state_balance, iter, attempts, tx,
                    attempt_start, included, execution_errors, profit_vars, result, seed, logs >>

NonceErr ==
    /\ pc = "nonce"
    /\ \E e \in ErrKinds : result' = ErrResult("nonce", e)
    /\ pc' = "returned"
    /\ UNCHANGED << ctx_vars, snapshots, cached_reads, scratch_vars, elapsed,
                    fee_recipient_balance_before, state_cache, state_balance,
                    current_nonce, loop_vars, profit_vars, seed, logs >>

\* lines 140-146: an iteration begins, the deadline (if any) has not passed,
\* the factory generates the transaction; a panic of generate_tx unwinds like
\* the one of dummy_signer
AttemptStart ==
    /\ pc = "loop"
    /\ iter < MaxAttempts
    /\ ~DeadlineExceeded(elapsed, build_duration_deadline(build_duration_deadline_ms))
    /\ iter' = iter + 1
    /\ LET generated == generate_tx(factory_nonce, basefee)
       IN  IF generated = TxPanic
           THEN /\ tx' = tx
                /\ attempts' = attempts
                /\ attempt_start' = attempt_start
                /\ result' = [NoResult EXCEPT !.kind = "panic", !.step = "generate_tx"]
                /\ builder_exists' = IF caller = "adapter" THEN FALSE ELSE builder_exists
                /\ pc' = "panicked"
           ELSE /\ tx' = generated
                /\ attempts' = attempts + 1
                /\ attempt_start' = elapsed
                /\ result' = result
                /\ builder_exists' = builder_exists
                /\ pc' = "commit"
    /\ UNCHANGED << input_vars, caller, cache_at_call, adapter_vars, sibling_last, snapshots, cached_reads, scratch_vars, elapsed,
                    fee_recipient_balance_before, state_cache, state_balance,
                    current_nonce, included, execution_errors, factory_nonce, profit_vars, seed,
                    logs >>

\* lines 141-145: break
LoopBreak ==
    /\ pc = "loop"
    /\ iter < MaxAttempts
    /\ DeadlineExceeded(elapsed, build_duration_deadline(build_duration_deadline_ms))
    /\ pc' = "balance_after"
    /\ UNCHANGED << ctx_vars, snapshots, cached_reads, scratch_vars, elapsed,
                    fee_recipient_balance_before, state_cache, state_balance,
                    current_nonce, loop_vars, profit_vars, result, seed, logs >>

\* line 140: the range 0..10 is exhausted
LoopDone ==
    /\ pc = "loop"
    /\ iter = MaxAttempts
    /\ pc' = "balance_after"
    /\ UNCHANGED << ctx_vars, snapshots, cached_reads, scratch_vars, elapsed,
                    fee_recipient_balance_before, state_cache, state_balance,
                    current_nonce, loop_vars, profit_vars, result, seed, logs >>

\* lines 148-170, commit_result is Ok(res)
CommitOk ==
    /\ pc = "commit"
    /\ \E d \in 1..MaxDur : elapsed' = elapsed + d
    /\ included' = included + 1
    /\ state_balance' = IF sender_is_recipient THEN state_balance
                        ELSE state_balance + tx.value
    /\ factory_nonce' = increase_nonce(factory_nonce)
    /\ logs' = logs \cup {"trace"}
    /\ pc' = "loop"
    /\ UNCHANGED << ctx_vars, snapshots, cached_reads, scratch_vars,
                    fee_recipient_balance_before, state_cache, current_nonce, iter,
                    attempts, tx, attempt_start, execution_errors, profit_vars, result, seed >>

\* a failed commit that leaves the factory nonce where it was
CommitErr_NoAdvance ==
    /\ pc = "commit"
    /\ \E d \in 1..MaxDur : elapsed' = elapsed + d
    /\ logs' = logs \cup {"trace"}
    /\ pc' = "loop"
    /\ UNCHANGED << ctx_vars, snapshots, cached_reads, scratch_vars,
                    fee_recipient_balance_before, state_cache, state_balance,
                    current_nonce, loop_vars, profit_vars, result, seed >>

\* a failed commit that ends the build with the commit's error
CommitErr_Fatal ==
    /\ pc = "commit"
    /\ \E d \in 1..MaxDur : elapsed' = elapsed + d
    /\ execution_errors' = execution_errors + 1
    /\ \E e \in ErrKinds : result' = ErrResult("commit", e)
    /\ logs' = logs \cup {"trace"}
    /\ pc' = "returned"
    /\ UNCHANGED << ctx_vars, snapshots, cached_reads, scratch_vars,
                    fee_recipient_balance_before, state_cache, state_balance,
                    current_nonce, iter, attempts, tx, attempt_start, included,
                    factory_nonce, profit_vars, seed >>

\* lines 148-170, commit_result is Err(err)
CommitErr ==
    /\ pc = "commit"
    /\ \E d \in 1..MaxDur : elapsed' = elapsed + d
    /\ execution_errors' = execution_errors + 1
    /\ factory_nonce' = increase_nonce(factory_nonce)
    /\ logs' = logs \cup {"trace"}
    /\ pc' = "loop"
    /\ UNCHANGED << ctx_vars, snapshots, cached_reads, scratch_vars,
                    fee_recipient_balance_before, state_cache, state_balance,
                    current_nonce, iter, attempts, tx, attempt_start, included,
                    profit_vars, result, seed >>

\* lines 173-179: the balance after, read from state_provider, and the difference
BalanceAfterOk ==
    /\ pc = "balance_after"
    /\ fee_recipient_balance_after' = account_balance
    /\ fee_recipient_balance_diff' =
           checked_sub_or_default(account_balance, fee_recipient_balance_before)
    /\ pc' = "oracle"
    /\ UNCHANGED << ctx_vars, snapshots, cached_reads, scratch_vars, elapsed,
                    fee_recipient_balance_before, state_cache, state_balance,
                    current_nonce, loop_vars, oracle_args, result, seed, logs >>

BalanceAfterErr ==
    /\ pc = "balance_after"
    /\ \E e \in ErrKinds : result' = ErrResult("balance_after", e)
    /\ pc' = "returned"
    /\ UNCHANGED << ctx_vars, snapshots, cached_reads, scratch_vars, elapsed,
                    fee_recipient_balance_before, state_cache, state_balance,
                    current_nonce, loop_vars, profit_vars, seed, logs >>

\* lines 181-189: finalize_block_execution(..)? says to finalize
OracleAccept ==
    /\ pc = "oracle"
    /\ TRUE \in seal_instructions(slot_bidder, fee_recipient_balance_diff)
    /\ oracle_args' = Append(oracle_args, fee_recipient_balance_diff)
    /\ pc' = "finalize"
    /\ UNCHANGED << ctx_vars, snapshots, cached_reads, scratch_vars, elapsed,
                    fee_recipient_balance_before, state_cache, state_balance,
                    current_nonce, loop_vars, fee_recipient_balance_after,
                    fee_recipient_balance_diff, result, seed, logs >>

\* a rejection that is ignored: the build goes on to finalize
OracleReject_Finalizes ==
    /\ pc = "oracle"
    /\ FALSE \in seal_instructions(slot_bidder, fee_recipient_balance_diff)
    /\ oracle_args' = Append(oracle_args, fee_recipient_balance_diff)
    /\ logs' = logs \cup {"trace"}
    /\ pc' = "finalize"
    /\ UNCHANGED << ctx_vars, snapshots, cached_reads, scratch_vars, elapsed,
                    fee_recipient_balance_before, state_cache, state_balance,
                    current_nonce, loop_vars, fee_recipient_balance_after,
                    fee_recipient_balance_diff, result, seed >>

\* lines 181-198: should_finalize is false, return Ok(None)
OracleReject ==
    /\ pc = "oracle"
    /\ FALSE \in seal_instructions(slot_bidder, fee_recipient_balance_diff)
    /\ oracle_args' = Append(oracle_args, fee_recipient_balance_diff)
    /\ logs' = logs \cup {"trace"}
    /\ result' = [NoResult EXCEPT !.kind = "rejected"]
    /\ pc' = "returned"
    /\ UNCHANGED << ctx_vars, snapshots, cached_reads, scratch_vars, elapsed,
                    fee_recipient_balance_before, state_cache, state_balance,
                    current_nonce, loop_vars, fee_recipient_balance_after,
                    fee_recipient_balance_diff, seed >>

\* lines 181-189: finalize_block_execution(..)? returns the error
OracleErr ==
    /\ pc = "oracle"
    /\ oracle_args' = Append(oracle_args, fee_recipient_balance_diff)
    /\ \E e \in OracleErrKinds : result' = ErrResult("oracle", e)
    /\ pc' = "returned"
    /\ UNCHANGED << ctx_vars, snapshots, cached_reads, scratch_vars, elapsed,
                    fee_recipient_balance_before, state_cache, state_balance,
                    current_nonce, loop_vars, fee_recipient_balance_after,
                    fee_recipient_balance_diff, seed, logs >>

\* lines 203-258: partial_block.finalize(..) succeeds, the cache is captured,
\* Ok(Some(Block)) is returned
FinalizeOk ==
    /\ pc = "finalize"
    /\ cached_reads' = Some(state_cache)
    /\ logs' = logs \cup {"trace"}
    /\ result' = [NoResult EXCEPT !.kind = "block", !.orders = included,
                                  !.bid_value = fee_recipient_balance_diff]
    /\ pc' = "returned"
    /\ UNCHANGED << ctx_vars, snapshots, scratch_vars, elapsed, fee_recipient_balance_before,
                    state_cache, state_balance, current_nonce, loop_vars, profit_vars,
                    seed >>

\* lines 210-216: partial_block.finalize(..)? returns the error
FinalizeErr ==
    /\ pc = "finalize"
    /\ \E e \in ErrKinds : result' = ErrResult("finalize", e)
    /\ pc' = "returned"
    /\ UNCHANGED << ctx_vars, snapshots, cached_reads, scratch_vars, elapsed,
                    fee_recipient_balance_before, state_cache, state_balance,
                    current_nonce, loop_vars, profit_vars, seed, logs >>

\* ---------------------------------------------------- run_preconf_builder
build_vars == << cached_reads, snapshots, scratch_vars, elapsed, fee_recipient_balance_before,
                 state_cache, state_balance, current_nonce, loop_vars, profit_vars,
                 result, seed >>

\* lines 323-325: Ok(Some(block)) => input.sink.new_block(block)
DispatchBlock ==
    /\ pc = "returned" /\ caller = "adapter"
    /\ result.kind = "block"
    /\ sink' = Append(sink, result)
    /\ builder_exists' = FALSE
    /\ pc' = "dispatched"
    /\ UNCHANGED << input_vars, sibling_last, caller, cache_at_call, build_calls, cancel,
                    cancel_calls, build_vars, logs >>

\* Ok(None) answered by calling build_block again
DispatchNone_Retry ==
    /\ pc = "returned" /\ caller = "adapter"
    /\ result.kind = "rejected"
    /\ build_calls' = build_calls + 1
    /\ pc' = "health"
    /\ UNCHANGED << input_vars, sibling_last, builder_exists, caller, cache_at_call, sink, cancel,
                    cancel_calls, build_vars, logs >>

\* line 326: Ok(None) => {}
DispatchNone ==
    /\ pc = "returned" /\ caller = "adapter"
    /\ result.kind = "rejected"
    /\ builder_exists' = FALSE
    /\ pc' = "dispatched"
    /\ UNCHANGED << input_vars, sibling_last, caller, cache_at_call, adapter_vars, build_vars, logs >>

\* a provider-health error answered by cancelling the slot as well
DispatchErr_CancelOnHealth ==
    /\ pc = "returned" /\ caller = "adapter"
    /\ result.kind = "err"
    /\ IF contains_consistent_view(result.err) \/ is_provider_factory_health_error(result.err)
         THEN /\ logs' = logs \cup {"debug"}
              /\ cancel' = TRUE
              /\ cancel_calls' = cancel_calls + 1
         ELSE /\ UNCHANGED << cancel, cancel_calls >>
              /\ IF ~contains_profit_too_low(result.err)
                   THEN IF is_provider_factory_health_error(result.err)
                          THEN logs' = logs \cup {"error"}
                          ELSE logs' = logs \cup {"warn"}
                   ELSE UNCHANGED logs
    /\ builder_exists' = FALSE
    /\ pc' = "dispatched"
    /\ UNCHANGED << input_vars, sibling_last, caller, cache_at_call, build_calls, sink, build_vars >>

\* lines 327-347: Err(err)
DispatchErr ==
    /\ pc = "returned" /\ caller = "adapter"
    /\ result.kind = "err"
    /\ IF contains_consistent_view(result.err)
         THEN /\ logs' = logs \cup {"debug"}
              /\ cancel' = TRUE
              /\ cancel_calls' = cancel_calls + 1
         ELSE /\ UNCHANGED << cancel, cancel_calls >>
              /\ IF ~contains_profit_too_low(result.err)
                   THEN IF is_provider_factory_health_error(result.err)
                          THEN logs' = logs \cup {"error"}
                          ELSE logs' = logs \cup {"warn"}
                   ELSE UNCHANGED logs
    /\ builder_exists' = FALSE
    /\ pc' = "dispatched"
    /\ UNCHANGED << input_vars, sibling_last, caller, cache_at_call, build_calls, sink, build_vars >>

Next ==
    \/ New
    \/ CallBuildBlock
    \/ RunPreconfBuilder
    \/ CheckHealthOk
    \/ CheckHealthErr
    \/ SnapshotOk
    \/ SnapshotErr
    \/ BalanceBeforeOk
    \/ BalanceBeforeErr
    \/ PreBlockOk
    \/ PreBlockErr
    \/ DummySignerOk
    \/ DummySignerPanic
    \/ NonceOk
    \/ NonceErr
    \/ AttemptStart
    \/ LoopBreak
    \/ LoopDone
    \/ CommitOk
    \/ CommitErr
    \/ BalanceAfterOk
    \/ BalanceAfterErr
    \/ OracleAccept
    \/ OracleReject
    \/ OracleErr
    \/ FinalizeOk
    \/ FinalizeErr
    \/ DispatchBlock
    \/ DispatchNone
    \/ DispatchErr

Spec == Init /\ [][Next]_vars
\* ------------------------------------------------- the profit signal alone
\* build_block from line 173 on, reached with a zero deadline (the loop breaks
\* at its first check), for any recorded baseline and any balance the provider
\* answers with
MaxPairBalance == 6

InitProfit ==
    /\ build_duration_deadline_ms = Some(0)
    /\ key_valid = TRUE
    /\ slot_bidder \in Policies
    /\ sender_is_recipient = FALSE
    /\ parent_balance \in 0..MaxPairBalance
    /\ parent_nonce = 0
    /\ basefee = U256(1)
    /\ builder_exists = TRUE
    /\ cached_reads = None
    /\ failed_orders = {}
    /\ order_attempts = {}
    /\ pc = "balance_after"
    /\ caller = "direct"
    /\ elapsed = 1
    /\ fee_recipient_balance_before \in 0..MaxPairBalance
    /\ state_cache = {"sender"}
    /\ state_balance = parent_balance
    /\ current_nonce = 0
    /\ factory_nonce = 0
    /\ iter = 0
    /\ attempts = 0
    /\ tx = NoTx
    /\ attempt_start = 0
    /\ included = 0
    /\ execution_errors = 0
    /\ snapshots = 1
    /\ sibling_last = "none"
    /\ fee_recipient_balance_after = 0
    /\ fee_recipient_balance_diff = 0
    /\ oracle_args = << >>
    /\ result = NoResult
    /\ cache_at_call = None
    /\ seed = {}
    /\ build_calls = 0
    /\ sink = << >>
    /\ cancel = FALSE
    /\ cancel_calls = 0
    /\ logs = {"info"}

NextProfit ==
    \/ BalanceAfterOk
    \/ BalanceAfterErr
    \/ OracleAccept
    \/ OracleReject
    \/ OracleErr
    \/ FinalizeOk
    \/ FinalizeErr

SpecProfit == InitProfit /\ [][NextProfit]_vars

\* ------------------------------------------- sibling invocations, one signal
\* A sibling thread runs the same adapter for the same slot.  Its context, sink
\* and logs are its own; what it shares with this invocation is input.cancel.
\* Its dispatch (lines 322-348) of its own outcome is one step, taken at any
\* point of this invocation.
SiblingOutcomes == {"block", "rejected"} \cup OracleErrKinds

SiblingDispatch ==
    /\ \E o \in SiblingOutcomes :
          /\ sibling_last' = o
          /\ cancel' = IF contains_consistent_view(o) THEN TRUE ELSE cancel
    /\ UNCHANGED << input_vars, builder_exists, caller, cache_at_call, build_calls,
                    sink, cancel_calls, build_vars, pc, logs >>

InitSiblings ==
    /\ Init
    /\ caller = "adapter"
    /\ ~sender_is_recipient
    /\ parent_balance = 0
    /\ parent_nonce = 0

NextSiblings ==
    \/ RunPreconfBuilder
    \/ CheckHealthOk
    \/ CheckHealthErr
    \/ SnapshotOk
    \/ SnapshotErr
    \/ BalanceBeforeOk
    \/ BalanceBeforeErr
    \/ PreBlockOk
    \/ PreBlockErr
    \/ DummySignerOk
    \/ DummySignerPanic
    \/ NonceOk
    \/ NonceErr
    \/ AttemptStart
    \/ LoopBreak
    \/ LoopDone
    \/ CommitOk
    \/ CommitErr
    \/ BalanceAfterOk
    \/ BalanceAfterErr
    \/ OracleAccept
    \/ OracleReject
    \/ OracleErr
    \/ FinalizeOk
    \/ FinalizeErr
    \/ DispatchBlock
    \/ DispatchNone
    \/ DispatchErr
    \/ SiblingDispatch

SpecSiblings == InitSiblings /\ [][NextSiblings]_vars

\* ------------------------------------------------- the filler factory alone
\* DummyOrderFactory::new with any starting nonce, then generate_tx with any
\* basefee and increase_nonce in any order
MaxFactoryNonce == 4
MaxFactoryBasefee == 8

\* the largest basefee whose gas limit fits a u64, (2^64 - 1 - 5000) div 21000 =
\* 878416384462359, and its successor
MaxFittingBasefee == << 36375, 16527, 7914, 3 >>
MinPanickingBasefee == << 36376, 16527, 7914, 3 >>

\* small basefees, the two sides of the u64 boundary of the gas limit, the
\* largest u64 (the width of a header's base fee) and 2^128
FactoryBasefees ==
    {U256(n) : n \in 0..MaxFactoryBasefee}
        \cup {MaxFittingBasefee, MinPanickingBasefee,
              << Limb - 1, Limb - 1, Limb - 1, Limb - 1 >>,
              << 0, 0, 0, 0, 0, 0, 0, 0, 1 >>}

InitFactory ==
    /\ build_duration_deadline_ms = None
    /\ key_valid = TRUE
    /\ slot_bidder = "accept"
    /\ sender_is_recipient = FALSE
    /\ parent_balance = 0
    /\ parent_nonce = 0
    /\ basefee \in FactoryBasefees
    /\ builder_exists = FALSE
    /\ cached_reads = None
    /\ failed_orders = {}
    /\ order_attempts = {}
    /\ pc = "factory"
    /\ caller = "direct"
    /\ elapsed = 0
    /\ fee_recipient_balance_before = 0
    /\ state_cache = {}
    /\ state_balance = 0
    /\ current_nonce \in 0..MaxFactoryNonce
    /\ factory_nonce = current_nonce
    /\ iter = 0
    /\ attempts = 0
    /\ tx = NoTx
    /\ attempt_start = 0
    /\ included = 0
    /\ execution_errors = 0
    /\ snapshots = 0
    /\ sibling_last = "none"
    /\ fee_recipient_balance_after = 0
    /\ fee_recipient_balance_diff = 0
    /\ oracle_args = << >>
    /\ result = NoResult
    /\ cache_at_call = None
    /\ seed = {}
    /\ build_calls = 0
    /\ sink = << >>
    /\ cancel = FALSE
    /\ cancel_calls = 0
    /\ logs = {}

factory_frame == << build_duration_deadline_ms, key_valid, slot_bidder,
                    sender_is_recipient, parent_balance, parent_nonce, builder_exists,
                    cached_reads, failed_orders, order_attempts, caller, elapsed,
                    fee_recipient_balance_before, state_cache, state_balance,
                    current_nonce, iter, attempt_start, included, execution_errors,
                    snapshots, sibling_last, fee_recipient_balance_after,
                    fee_recipient_balance_diff, oracle_args, cache_at_call,
                    seed, build_calls, sink, cancel, cancel_calls, logs >>

\* generate_tx(&self, basefee): a transaction, or the panic of a conversion, which
\* leaves the factory as it was
FactoryGenerateTx ==
    /\ pc \in {"factory", "generated", "advanced", "panicked"}
    /\ \E fee \in FactoryBasefees :
          /\ basefee' = fee
          /\ LET generated == generate_tx(factory_nonce, fee)
             IN  IF generated = TxPanic
                 THEN /\ tx' = tx
                      /\ result' = [NoResult EXCEPT !.kind = "panic",
                                                    !.step = "generate_tx"]
                      /\ pc' = "panicked"
                 ELSE /\ tx' = generated
                      /\ result' = NoResult
                      /\ pc' = "generated"
    /\ attempts' = attempts
    /\ UNCHANGED << factory_frame, factory_nonce >>

\* increase_nonce(&mut self)
FactoryIncreaseNonce ==
    /\ pc \in {"factory", "generated", "advanced", "panicked"}
    /\ factory_nonce < MaxFactoryNonce + 2
    /\ factory_nonce' = increase_nonce(factory_nonce)
    /\ pc' = "advanced"
    /\ UNCHANGED << factory_frame, basefee, tx, attempts, result >>

NextFactory ==
    \/ FactoryGenerateTx
    \/ FactoryIncreaseNonce

SpecFactory == InitFactory /\ [][NextFactory]_vars

\* ------------------------------------------------------------------ claims
DeadlineSet == build_duration_deadline_ms # None
DeadlineTicks == build_duration_deadline_ms[1] * TicksPerMs
Returned == pc = "returned"
Dispatched == pc = "dispatched"

\* C1: when the bid oracle declines (build_block returns Ok(None)), the context's
\* cached_reads after the call equals the cache it held before the call.
C1_RejectionKeepsCache ==
    (Returned /\ result.kind = "rejected") => cached_reads = cache_at_call

\* C2: after every completed build_block call, whatever its outcome, the context
\* holds a cache (cached_reads is not None).
C2_CacheHeldAfterBuild ==
    Returned => cached_reads # None

\* C3: Scenario A: no deadline, every filler commit succeeds, the oracle accepts
\* exactly when the profit signal is positive, fee recipient /= filler sender, no
\* step fails: build_block returns a block with exactly 10 included orders and a
\* positive profit value.
C3_ScenarioA ==
    ( /\ Returned
      /\ ~DeadlineSet
      /\ slot_bidder = "positive"
      /\ ~sender_is_recipient
      /\ result.kind # "err"
      /\ included = attempts )
    => ( /\ result.kind = "block"
         /\ result.orders = 10
         /\ result.bid_value > 0 )

\* C4: a build makes at most 10 commit attempts; with a deadline D every attempt
\* begins (its deadline check is made) no later than build_start + D; the deadline
\* is looked at only between attempts: an attempt that has begun is completed by
\* the next step, whatever the clock says.
C4_AttemptsBounded ==
    /\ [](/\ attempts <= 10
          /\ (DeadlineSet /\ attempts > 0) => attempt_start <= DeadlineTicks)
    /\ [][pc = "commit" =>
            /\ pc' = "loop"
            /\ attempts' = attempts
            /\ factory_nonce' = factory_nonce + 1
            /\ included' \in {included, included + 1}]_vars

\* an attempt that began before the deadline has run past it and completed
C4_Witness ==
    /\ pc = "loop"
    /\ DeadlineSet
    /\ attempts >= 2
    /\ attempt_start <= DeadlineTicks
    /\ elapsed > DeadlineTicks

\* C5: the transaction of attempt i (from 0) carries nonce starting_nonce + i,
\* whatever the commits did, and the factory nonce has advanced once per attempt
\* completed.
C5_NonceMonotonic ==
    /\ attempts > 0 => tx.nonce = current_nonce + (attempts - 1)
    /\ factory_nonce = current_nonce + (IF pc = "commit" THEN attempts - 1 ELSE attempts)

C5_Witness ==
    /\ pc = "loop"
    /\ attempts = 10
    /\ included > 0
    /\ included < attempts
    /\ current_nonce > 0
    /\ tx.nonce = current_nonce + 9

\* C6: the profit signal handed to the bid oracle is never negative: it is
\* after - before when after >= before and 0 when after < before.
C6_ProfitFloor ==
    pc \in {"oracle", "finalize", "returned"} /\ result.step # "balance_after" =>
        /\ fee_recipient_balance_diff >= 0
        /\ fee_recipient_balance_after >= fee_recipient_balance_before =>
               fee_recipient_balance_diff =
                   fee_recipient_balance_after - fee_recipient_balance_before
        /\ fee_recipient_balance_after < fee_recipient_balance_before =>
               fee_recipient_balance_diff = 0
        /\ \A i \in 1..Len(oracle_args) : oracle_args[i] = fee_recipient_balance_diff

C6_Witness ==
    /\ fee_recipient_balance_after < fee_recipient_balance_before
    /\ fee_recipient_balance_after > 0
    /\ oracle_args = << 0 >>

\* C7: when build_block fails with an error that says the parent state view is
\* unusable, the adapter sets the cancellation signal exactly once and pushes no
\* block; if the error came from the snapshot step, no filler attempt was made.
C7_CancellationPropagation ==
    (Dispatched /\ result.kind = "err" /\ result.err = "consistent_view") =>
        /\ cancel
        /\ cancel_calls = 1
        /\ sink = << >>
        /\ result.step = "snapshot" => attempts = 0

C7_Witness ==
    /\ Dispatched
    /\ result.kind = "err"
    /\ result.err = "consistent_view"
    /\ result.step = "snapshot"
    /\ cancel_calls = 1

\* C8: a build that ends "not profitable" (Ok(None), or a "Profit too low" error)
\* makes the adapter set no cancellation, push nothing and log nothing at error or
\* warning level.
C8_SilentSkip ==
    ( /\ Dispatched
      /\ \/ result.kind = "rejected"
         \/ result.kind = "err" /\ result.err = "profit_too_low" )
    => /\ cancel_calls = 0
       /\ sink = << >>
       /\ "error" \notin logs
       /\ "warn" \notin logs

C8_Witness ==
    /\ Dispatched
    /\ result.kind = "err"
    /\ result.err = "profit_too_low"
    /\ attempts = 10

\* C9: Scenario B: with a deadline of 0 ms the fill loop makes no commit attempt,
\* and a build that does not fail returns a block with no included order or
\* "no block produced".
C9_ScenarioB ==
    build_duration_deadline_ms = Some(0) =>
        /\ attempts = 0
        /\ (Returned /\ result.kind # "err") =>
               \/ result.kind = "rejected"
               \/ result.kind = "block" /\ result.orders = 0

C9_Witness ==
    /\ build_duration_deadline_ms = Some(0)
    /\ Returned
    /\ result.kind = "block"
    /\ result.orders = 0

\* C10: an adapter invocation builds one fresh context, calls build_block once and
\* does not retry, and pushes exactly one block if and only if the call produced
\* one; the sink gets at most one block per invocation.
C10_OneBuildOnePush ==
    (caller = "adapter" /\ pc # "idle") =>
        /\ build_calls = 1
        /\ cache_at_call = None
        /\ Len(sink) <= 1
        /\ ~Dispatched => sink = << >>
        /\ Dispatched => /\ Len(sink) = 1 <=> result.kind = "block"
                         /\ result.kind = "block" => sink = << result >>

C10_Witness ==
    /\ Dispatched
    /\ Len(sink) = 1
    /\ sink[1].orders = 10
\* the control actions the adapter took on the outcome of this invocation
ActionsTaken ==
    cancel_calls + (IF "error" \in logs THEN 1 ELSE 0) + (IF "warn" \in logs THEN 1 ELSE 0)

\* C11 as stated: every error returned by build_block is dispatched to exactly one
\* of slot cancellation, an error-level log, a warning-level log.
C11_ExactlyOneAction ==
    (Dispatched /\ result.kind = "err") => ActionsTaken = 1

\* C11 as amended: an error is dispatched to at most one action: a consistent-view
\* error to cancellation alone, a provider-health error to an error log alone, a
\* "Profit too low" error to nothing, any other error to a warning log alone.
C11_ErrorClassification ==
    (Dispatched /\ result.kind = "err") =>
        /\ ActionsTaken <= 1
        /\ cancel_calls = 1 <=> result.err = "consistent_view"
        /\ "error" \in logs <=> result.err = "provider_health"
        /\ "warn" \in logs <=> result.err = "other"
        /\ result.err = "profit_too_low" => ActionsTaken = 0

C11_Witness ==
    /\ Dispatched
    /\ result.kind = "err"
    /\ result.err = "provider_health"
    /\ "error" \in logs
    /\ cancel_calls = 0
\* C12: whatever the interleaving with a sibling's invocations on the same signal,
\* no step clears the signal, and this invocation calls cancel() only while
\* dispatching a build_block error that says "failed to initialize consistent
\* view": a block, a rejection, a provider-health error and any other error leave
\* the signal as it was.
C12_CancelSetOnly ==
    /\ [][cancel => cancel']_vars
    /\ [][cancel_calls' > cancel_calls =>
            /\ pc = "returned"
            /\ result.kind = "err"
            /\ result.err = "consistent_view"]_vars
    /\ [][(~cancel /\ cancel') =>
            \/ cancel_calls' = cancel_calls + 1
            \/ sibling_last' = "consistent_view" /\ pc' = pc]_vars
    /\ [](Dispatched /\ result.err # "consistent_view" => cancel_calls = 0)

C12_Witness ==
    /\ Dispatched
    /\ result.kind = "err"
    /\ result.err = "provider_health"
    /\ cancel
    /\ cancel_calls = 0
    /\ sibling_last = "block"
\* C13: a malformed filler key is caught when the configuration is resolved or
\* the context constructed: no context exists and no build starts with a key that
\* does not parse, and no build_block call aborts because of the key.
C13_KeyCheckedAtStartup ==
    /\ ~key_valid => (~builder_exists /\ pc = "idle")
    /\ pc # "panicked"

\* the order of two limb sequences
RECURSIVE LimbsLessEq(_, _)
LimbsLessEq(x, y) ==
    IF Len(x) # Len(y) THEN Len(x) < Len(y)
    ELSE IF x = << >> THEN TRUE
    ELSE IF x[Len(x)] # y[Len(y)] THEN x[Len(x)] < y[Len(y)]
    ELSE LimbsLessEq(SubSeq(x, 1, Len(x) - 1), SubSeq(y, 1, Len(y) - 1))

\* the integer a short limb sequence stands for
RECURSIVE LimbsValue(_)
LimbsValue(x) == IF x = << >> THEN 0 ELSE x[1] + Limb * LimbsValue(Tail(x))

C15_HealthFailureTouchesNothing ==
    (Returned /\ result.kind = "err" /\ result.step = "health") =>
        /\ cached_reads = cache_at_call
        /\ failed_orders = {}
        /\ order_attempts = {}
        /\ snapshots = 0
        /\ attempts = 0
        /\ iter = 0
        /\ tx = NoTx
        /\ included = 0
        /\ oracle_args = << >>
        /\ seed = {}
        /\ elapsed = 0

C15_Witness ==
    /\ Returned
    /\ result.kind = "err"
    /\ result.step = "health"
    /\ cache_at_call # None
    /\ cached_reads = cache_at_call

PastLoop ==
    \/ pc \in {"balance_after", "oracle", "finalize"}
    \/ /\ pc \in {"returned", "dispatched"}
       /\ \/ result.kind \in {"block", "rejected"}
          \/ result.kind = "err" /\ result.step \in {"balance_after", "oracle", "finalize"}

\* C16: a failed filler commit is isolated. Every commit, failed or not, is
\* followed by the loop head; with no deadline the loop makes exactly 10
\* attempts; each attempt's transaction has a nonce above the previous attempt's,
\* so no failed transaction is attempted again; no error return comes from the
\* commit step; and the inclusion records number exactly the successful commits
\* (attempts = inclusions + failures once an attempt is completed).
C16_CommitFailureIsolated ==
    /\ [][pc = "commit" => pc' = "loop"]_vars
    /\ [][(pc = "loop" /\ pc' = "commit" /\ tx # NoTx) => tx'.nonce > tx.nonce]_vars
    /\ [][(pc = "commit" /\ execution_errors' > execution_errors) =>
            /\ included' = included
            /\ result' = result]_vars
    /\ [][included' > included =>
            /\ pc = "commit"
            /\ included' = included + 1
            /\ execution_errors' = execution_errors]_vars
    /\ [](result.kind = "err" => result.step # "commit")
    /\ [](pc # "commit" => included + execution_errors = attempts)
    /\ []((PastLoop /\ ~DeadlineSet) => attempts = MaxAttempts)
    /\ [](result.kind = "block" => result.orders = included)

C16_Witness ==
    /\ pc = "returned"
    /\ result.kind = "block"
    /\ ~DeadlineSet
    /\ attempts = 10
    /\ execution_errors = 4
    /\ result.orders = 6

LoopEnded ==
    \/ iter = MaxAttempts
    \/ DeadlineSet /\ elapsed > DeadlineTicks

\* C17: in one build_block call the oracle is consulted at most once and only
\* after the fill loop has ended; finalization is entered, and a cache captured,
\* only after the oracle accepted the submitted signal; after a rejection the
\* call has returned with no cache captured and exactly one consultation.
C17_OracleOnceThenFinalize ==
    /\ [](Len(oracle_args) <= 1)
    /\ [][oracle_args' # oracle_args =>
            \/ oracle_args' = << >>
            \/ pc = "oracle" /\ oracle_args = << >> /\ LoopEnded]_vars
    /\ [](pc = "finalize" =>
            /\ Len(oracle_args) = 1
            /\ TRUE \in seal_instructions(slot_bidder, oracle_args[1]))
    /\ [][(cached_reads' # None /\ cached_reads' # cached_reads) =>
            /\ pc = "finalize"
            /\ Len(oracle_args) = 1
            /\ TRUE \in seal_instructions(slot_bidder, oracle_args[1])]_vars
    /\ []((pc \in {"returned", "dispatched"} /\ result.kind = "rejected") =>
            /\ Len(oracle_args) = 1
            /\ FALSE \in seal_instructions(slot_bidder, oracle_args[1])
            /\ cached_reads = None)
    /\ [][(pc = "oracle" /\ FALSE \in seal_instructions(slot_bidder, fee_recipient_balance_diff)
           /\ slot_bidder # "opaque") => pc' = "returned"]_vars

C17_Witness ==
    /\ Returned
    /\ result.kind = "rejected"
    /\ attempts = 10
    /\ included = 10
    /\ Len(oracle_args) = 1
    /\ cache_at_call # None
    /\ cached_reads = None
\* C18: the profit signal submitted to the oracle is the fee recipient's balance
\* in the working state after the committed filler transactions minus the
\* balance recorded before execution, clamped at zero.
C18_SignalFromWorkingState ==
    oracle_args # << >> =>
        oracle_args[1] = checked_sub_or_default(state_balance, fee_recipient_balance_before)

BeforeTake == {"health", "snapshot", "balance_before"}

\* C19 as stated: after an error return from any step the context no longer
\* holds the cache it held before the call.
C19_ErrorForfeitsCache ==
    (Returned /\ result.kind = "err" /\ cache_at_call # None) =>
        cached_reads # cache_at_call

\* C19 amended: an error return from the pre-block execution or any later step
\* leaves the context holding no cache; an error return from the health check,
\* the snapshot or the first balance read leaves the held cache as it was
\* before the call.
C19_ErrorCacheByStep ==
    (Returned /\ result.kind = "err") =>
        IF result.step \in BeforeTake
        THEN cached_reads = cache_at_call
        ELSE cached_reads = None

C19_Witness ==
    /\ Returned
    /\ result.kind = "err"
    /\ result.step = "finalize"
    /\ cache_at_call # None
    /\ cached_reads = None

\* C20: through the adapter every build starts cold. Each invocation starts
\* build_block on a context that holds no cache, the state view of every
\* adapter-driven build is seeded with the empty default, and a cache captured by
\* a finalize is dropped with its context, never seeding a later build.
C20_AdapterStartsCold ==
    /\ [](caller = "adapter" => (cache_at_call = None /\ seed = {}))
    /\ [][(caller = "adapter" /\ pc # "health" /\ pc' = "health") =>
            /\ cached_reads' = None
            /\ build_calls' = 1]_vars
    /\ []((caller = "adapter" /\ pc \in {"health", "snapshot", "balance_before", "pre_block"})
            => cached_reads = None)
    /\ []((caller = "adapter" /\ pc = "dispatched") => ~builder_exists)

C20_Witness ==
    /\ caller = "adapter"
    /\ pc = "returned"
    /\ result.kind = "block"
    /\ seed = {}
    /\ cache_at_call = None
    /\ cached_reads = Some({"sender"})
====
